---- MODULE Spec2Model ----
(***************************************************************************)
(* Model of the index engine of src/Engine.h: an append-only heap of       *)
(* records with a primary BST index (id -> heap position) and a secondary  *)
(* BST index (lowercased last name -> list of heap positions).             *)
(*                                                                         *)
(* BST.h and Record.h are not part of the available sources; the ordered   *)
(* index is modelled from section 4.1 of the specification and the record  *)
(* from section 3.  Strings are sequences of character codes so that       *)
(* toLower and the lexicographic order of std::string are computed.        *)
(* A tree is <<>> (null) or <<key, value, left, right>>.                   *)
(* A pointer returned by find is <<>> (nullptr) or <<value>>.              *)
(***************************************************************************)
EXTENDS Integers, Sequences, FiniteSets, TLC

VARIABLES
    heap,       \* vector<Record> heap, position rid at index rid + 1
    idIndex,    \* BST<int, int> idIndex
    lastIndex,  \* BST<string, vector<int>> lastIndex
    idCmp,      \* idIndex.comparisons
    lastCmp,    \* lastIndex.comparisons
    op,         \* the last call made on the engine
    arg,        \* its argument
    path,       \* the branch insertRecord took: "new" or "update"
    ret,        \* its return value; a pointer &heap[rid] is the position rid
    cmpOut      \* its cmpOut out-parameter, 0 for a call that has none

vars == <<heap, idIndex, lastIndex, idCmp, lastCmp, op, arg, path, ret, cmpOut>>

\* ---------------------------------------------------------------- bounds
MaxId      == 3   \* ids are drawn from 1..MaxId
MaxHeap    == 3   \* number of insertRecord calls explored
\* insertRecord and deleteById never reset the counters, so a run of them
\* lets the counters grow without limit; they are explored from the states
\* where the counters are at most these
MaxIdCmp   == 1
MaxLastCmp == 4

Ids == 1..MaxId

\* "Ab", "ABA"
LastNames == { <<65, 98>>, <<65, 66, 65>> }

\* "Ab", "ABA", "a", "abb"
Prefixes == LastNames \cup { <<97>>, <<97, 98, 98>> }

\* ------------------------------------------------------- strings, toLower
toLower(s) ==
    IF s = <<>> THEN <<>>
    ELSE [i \in 1..Len(s) |-> IF s[i] \in 65..90 THEN s[i] + 32 ELSE s[i]]

\* std::string operator< : lexicographic on character codes
StrLess(a, b) ==
    \/ /\ Len(a) < Len(b)
       /\ \A i \in 1..Len(a) : a[i] = b[i]
    \/ \E i \in 1..(IF Len(a) < Len(b) THEN Len(a) ELSE Len(b)) :
          /\ a[i] < b[i]
          /\ \A j \in 1..(i - 1) : a[j] = b[j]

\* key order of BST<K, V>: K is "int" or "string"
Less(K, a, b) == IF K = "int" THEN a < b ELSE StrLess(a, b)

\* --------------------------------------------------------- BST<K, V>
RECURSIVE find(_, _, _)
find(K, t, k) ==
    IF t = <<>> THEN <<>>
    ELSE IF Less(K, k, t[1]) THEN find(K, t[3], k)
    ELSE IF Less(K, t[1], k) THEN find(K, t[4], k)
    ELSE <<t[2]>>

\* comparisons counted by find: one per node whose key is compared
RECURSIVE findCmp(_, _, _)
findCmp(K, t, k) ==
    IF t = <<>> THEN 0
    ELSE IF Less(K, k, t[1]) THEN 1 + findCmp(K, t[3], k)
    ELSE IF Less(K, t[1], k) THEN 1 + findCmp(K, t[4], k)
    ELSE 1

RECURSIVE insert(_, _, _, _)
insert(K, t, k, v) ==
    IF t = <<>> THEN <<k, v, <<>>, <<>> >>
    ELSE IF Less(K, k, t[1]) THEN <<t[1], t[2], insert(K, t[3], k, v), t[4]>>
    ELSE IF Less(K, t[1], k) THEN <<t[1], t[2], t[3], insert(K, t[4], k, v)>>
    ELSE <<t[1], v, t[3], t[4]>>

\* leftmost node of a non-empty tree (the in-order successor's position)
RECURSIVE minNode(_)
minNode(t) == IF t[3] = <<>> THEN t ELSE minNode(t[3])

RECURSIVE erase(_, _, _)
erase(K, t, k) ==
    IF t = <<>> THEN <<>>
    ELSE IF Less(K, k, t[1]) THEN <<t[1], t[2], erase(K, t[3], k), t[4]>>
    ELSE IF Less(K, t[1], k) THEN <<t[1], t[2], t[3], erase(K, t[4], k)>>
    ELSE IF t[3] = <<>> THEN t[4]
    ELSE IF t[4] = <<>> THEN t[3]
    ELSE LET m == minNode(t[4])
         IN  <<m[1], m[2], t[3], erase(K, t[4], m[1])>>

\* in-order visit of the keys in [lo, hi] with pruning: <<key, value>> pairs
RECURSIVE rangeApply(_, _, _, _)
rangeApply(K, t, lo, hi) ==
    IF t = <<>> THEN <<>>
    ELSE (IF Less(K, lo, t[1]) THEN rangeApply(K, t[3], lo, hi) ELSE <<>>)
         \o (IF ~Less(K, t[1], lo) /\ ~Less(K, hi, t[1])
             THEN << <<t[1], t[2]>> >> ELSE <<>>)
         \o (IF Less(K, t[1], hi) THEN rangeApply(K, t[4], lo, hi) ELSE <<>>)

\* comparisons counted by rangeApply: each visited node is compared with
\* lo and with hi
RECURSIVE rangeCmp(_, _, _, _)
rangeCmp(K, t, lo, hi) ==
    IF t = <<>> THEN 0
    ELSE 2
         + (IF Less(K, lo, t[1]) THEN rangeCmp(K, t[3], lo, hi) ELSE 0)
         + (IF Less(K, t[1], hi) THEN rangeCmp(K, t[4], lo, hi) ELSE 0)

\* a write through the pointer returned by find(k): the node keeps its place
assign(K, t, k, v) == insert(K, t, k, v)

\* ------------------------------------------------------------- helpers
Record(i, l) == [id |-> i, last |-> l, deleted |-> FALSE]

\* heap[rid] with the 0-based positions of the vector
At(h, rid) == h[rid + 1]

\* a soft delete that also clears the stored last name
markDeletedScrub(h, rid) ==
    [h EXCEPT ![rid + 1].deleted = TRUE, ![rid + 1].last = <<>>]

markDeleted(h, rid) == [h EXCEPT ![rid + 1].deleted = TRUE]

\* erase(remove(begin, end, x), end)
removeValue(v, x) == SelectSeq(v, LAMBDA e : e # x)

RECURSIVE Flatten(_)
Flatten(ss) == IF ss = <<>> THEN <<>> ELSE Head(ss) \o Flatten(Tail(ss))

\* ------------------------------------------------------ query results
\* the lambda of rangeById: keep &heap[rid] only if the record is not deleted
rangeCallback(h, rid) == IF At(h, rid).deleted THEN <<>> ELSE <<rid>>

\* the lambda of prefixByLast without the deleted test
prefixCallbackUnfiltered(h, ridList) == ridList

\* the lambda of prefixByLast: the non-deleted positions of one bucket
prefixCallback(h, ridList) ==
    SelectSeq(ridList, LAMBDA rid : ~At(h, rid).deleted)

\* findById: the position the returned pointer refers to, <<>> for nullptr
findByIdRet(h, t, id) == find("int", t, id)

\* rangeById with the upper bound taken as exclusive
rangeByIdRetExclusive(h, t, lo, hi) ==
    LET visited == rangeApply("int", t, lo, hi - 1)
    IN  Flatten([n \in 1..Len(visited) |-> rangeCallback(h, visited[n][2])])

\* rangeById: the positions of the returned pointers, in order
rangeByIdRet(h, t, lo, hi) ==
    LET visited == rangeApply("int", t, lo, hi)
    IN  Flatten([n \in 1..Len(visited) |-> rangeCallback(h, visited[n][2])])

\* the bounds prefixByLast hands to rangeApply
lowerBound(prefix) == toLower(prefix)
higherBound(prefix) == lowerBound(prefix) \o <<123>>

\* prefixByLast: the positions of the returned pointers, in order
prefixByLastRet(h, t, prefix) ==
    LET visited == rangeApply("string", t, lowerBound(prefix),
                              higherBound(prefix))
    IN  Flatten([n \in 1..Len(visited) |-> prefixCallback(h, visited[n][2])])

\* resetMetrics(): the counter c becomes 0
resetMetrics(c) == 0

\* findById without the resetMetrics() call
findByIdCmpNoReset(c, t, id) == c + findCmp("int", t, id)

\* the counter after resetMetrics() and the counted operation; the queries
\* copy it into cmpOut
findByIdCmp(c, t, id) == resetMetrics(c) + findCmp("int", t, id)

rangeByIdCmp(c, t, lo, hi) == resetMetrics(c) + rangeCmp("int", t, lo, hi)

prefixByLastCmp(c, t, prefix) ==
    resetMetrics(c)
    + rangeCmp("string", t, lowerBound(prefix), higherBound(prefix))

\* ---------------------------------------------------- insertRecord parts
\* the same with the position put at the front of an existing bucket
addToLastIndexFront(t, last, rid) ==
    LET lastNameLower  == toLower(last)
        lastNameVector == find("string", t, lastNameLower)
    IN  IF lastNameVector = <<>>
        THEN insert("string", t, lastNameLower, <<rid>>)
        ELSE assign("string", t, lastNameLower, <<rid>> \o lastNameVector[1])

\* append rid to the bucket of the lowercased last name, creating it if absent
addToLastIndex(t, last, rid) ==
    LET lastNameLower  == toLower(last)
        lastNameVector == find("string", t, lastNameLower)
    IN  IF lastNameVector = <<>>
        THEN insert("string", t, lastNameLower, <<rid>>)
        ELSE assign("string", t, lastNameLower, Append(lastNameVector[1], rid))

\* remove rid from the bucket of the lowercased last name, if there is one
removeFromLastIndex(t, last, rid) ==
    LET lastNameLower  == toLower(last)
        lastNameVector == find("string", t, lastNameLower)
    IN  IF lastNameVector = <<>> THEN t
        ELSE assign("string", t, lastNameLower,
                    removeValue(lastNameVector[1], rid))

\* update path that erases the stale entry and never inserts the new one
replaceInIdIndexEraseOnly(t, id, newRid) == erase("int", t, id)

\* update path: idIndex.erase(id); idIndex.insert(id, newRid)
replaceInIdIndex(t, id, newRid) == insert("int", erase("int", t, id), id, newRid)

\* update path returning the position of the record it replaced
updateRetOld(rid, oldIndex, newRid) == oldIndex

\* the value insertRecord returns on the update path
updateRet(rid, oldIndex, newRid) == rid

\* deleteById that leaves the primary-index entry in place
eraseFromIdIndexSkipped(t, id) == t

\* deleteById: idIndex.erase(id)
eraseFromIdIndex(t, id) == erase("int", t, id)

\* deleteById that reports success whatever the lookup found
deleteByIdRetAlways(heapIndex) == TRUE

\* deleteById: the boolean returned
deleteByIdRet(heapIndex) == heapIndex # <<>>

\* deleteById reads *heapIndex again after idIndex.erase(id) destroyed or
\* overwrote the node the pointer refers to.  The read yields the old value,
\* the value of the node that replaced a two-children node, or whatever the
\* allocator left there; the positions inside the heap are the outcomes for
\* which the following heap[...] access is itself defined.
staleRead(h) == 0..(Len(h) - 1)

\* ------------------------------------------------------------- actions
Init ==
    /\ heap = <<>>
    /\ idIndex = <<>>
    /\ lastIndex = <<>>
    /\ idCmp = 0
    /\ lastCmp = 0
    /\ op = "init"
    /\ arg = <<>>
    /\ path = "none"
    /\ ret = <<>>
    /\ cmpOut = 0

insertRecord(recIn) ==
    LET existingIndex == find("int", idIndex, recIn.id)
        rid           == Len(heap)
    IN  /\ Len(heap) < MaxHeap
        /\ idCmp <= MaxIdCmp
        /\ lastCmp <= MaxLastCmp
        /\ IF existingIndex = <<>>
           THEN /\ heap' = Append(heap, recIn)
                /\ idIndex' = insert("int", idIndex, recIn.id, rid)
                /\ lastIndex' = addToLastIndex(lastIndex, recIn.last, rid)
                /\ lastCmp' = lastCmp
                     + findCmp("string", lastIndex, toLower(recIn.last))
                /\ path' = "new"
                /\ ret' = rid
           ELSE LET oldIndex == existingIndex[1]
                    heap1    == markDeleted(heap, oldIndex)
                    oldCost  == findCmp("string", lastIndex,
                                        toLower(At(heap1, oldIndex).last))
                    last1    == removeFromLastIndex(lastIndex,
                                        At(heap1, oldIndex).last, oldIndex)
                    heap2    == Append(heap1, recIn)
                    newRid   == Len(heap2) - 1
                    newCost  == findCmp("string", last1, toLower(recIn.last))
                IN  /\ heap' = heap2
                    /\ idIndex' = replaceInIdIndex(idIndex, recIn.id, newRid)
                    /\ lastIndex' = addToLastIndex(last1, recIn.last, newRid)
                    /\ lastCmp' = lastCmp + oldCost + newCost
                    /\ path' = "update"
                    /\ ret' = updateRet(rid, oldIndex, newRid)
        /\ idCmp' = idCmp + findCmp("int", idIndex, recIn.id)
        /\ op' = "insertRecord"
        /\ arg' = recIn
        /\ cmpOut' = 0

\* deleteById on an id the primary index does not hold
deleteByIdAbsent(id) ==
    LET heapIndex == find("int", idIndex, id)
    IN  /\ heapIndex = <<>>
        /\ idCmp <= MaxIdCmp
        /\ lastCmp <= MaxLastCmp
        /\ idCmp' = idCmp + findCmp("int", idIndex, id)
        /\ ret' = deleteByIdRet(heapIndex)
        /\ op' = "deleteById"
        /\ arg' = id
        /\ path' = "none"
        /\ cmpOut' = 0
        /\ UNCHANGED <<heap, idIndex, lastIndex, lastCmp>>

\* deleteById on an id the primary index holds; stale1 and stale2 are what
\* the two reads of *heapIndex after idIndex.erase(id) produce
deleteByIdPresent(id, stale1, stale2) ==
    LET heapIndex == find("int", idIndex, id)
    IN  /\ heapIndex # <<>>
        /\ idCmp <= MaxIdCmp
        /\ lastCmp <= MaxLastCmp
        /\ LET heap1 == markDeleted(heap, heapIndex[1])
           IN  /\ stale1 \in staleRead(heap1)
               /\ stale2 \in staleRead(heap1)
               /\ heap' = heap1
               /\ idIndex' = eraseFromIdIndex(idIndex, id)
               /\ lastIndex' = removeFromLastIndex(lastIndex,
                                   At(heap1, stale1).last, stale2)
               /\ lastCmp' = lastCmp
                    + findCmp("string", lastIndex,
                              toLower(At(heap1, stale1).last))
        /\ idCmp' = idCmp + findCmp("int", idIndex, id)
        /\ ret' = deleteByIdRet(heapIndex)
        /\ op' = "deleteById"
        /\ arg' = id
        /\ path' = "none"
        /\ cmpOut' = 0

deleteById(id) ==
    \/ deleteByIdAbsent(id)
    \/ \E stale1, stale2 \in 0..(MaxHeap - 1) :
           deleteByIdPresent(id, stale1, stale2)

findById(id) ==
    /\ idCmp' = findByIdCmp(idCmp, idIndex, id)
    /\ cmpOut' = idCmp'
    /\ ret' = findByIdRet(heap, idIndex, id)
    /\ op' = "findById"
    /\ path' = "none"
    /\ arg' = id
    /\ UNCHANGED <<heap, idIndex, lastIndex, lastCmp>>

rangeById(lo, hi) ==
    /\ idCmp' = rangeByIdCmp(idCmp, idIndex, lo, hi)
    /\ cmpOut' = idCmp'
    /\ ret' = rangeByIdRet(heap, idIndex, lo, hi)
    /\ op' = "rangeById"
    /\ path' = "none"
    /\ arg' = <<lo, hi>>
    /\ UNCHANGED <<heap, idIndex, lastIndex, lastCmp>>

prefixByLast(prefix) ==
    /\ lastCmp' = prefixByLastCmp(lastCmp, lastIndex, prefix)
    /\ cmpOut' = lastCmp'
    /\ ret' = prefixByLastRet(heap, lastIndex, prefix)
    /\ op' = "prefixByLast"
    /\ path' = "none"
    /\ arg' = prefix
    /\ UNCHANGED <<heap, idIndex, lastIndex, idCmp>>

Next ==
    \/ \E i \in Ids, l \in LastNames : insertRecord(Record(i, l))
    \/ \E id \in Ids : deleteById(id)
    \/ \E id \in Ids : findById(id)
    \/ \E lo \in Ids : \E hi \in lo..MaxId : rangeById(lo, hi)
    \/ \E prefix \in Prefixes : prefixByLast(prefix)

Spec == Init /\ [][Next]_vars

\* the same operations on last names that are not all letters
\* "Ab", "a|"
AnyNames == { <<65, 98>>, <<97, 124>> }

\* "a", "A|", "ab"
AnyPrefixes == { <<97>>, <<65, 124>>, <<97, 98>> }

NextAny ==
    \/ \E i \in Ids, l \in AnyNames : insertRecord(Record(i, l))
    \/ \E id \in Ids : deleteById(id)
    \/ \E id \in Ids : findById(id)
    \/ \E lo \in Ids : \E hi \in lo..MaxId : rangeById(lo, hi)
    \/ \E prefix \in AnyPrefixes : prefixByLast(prefix)

SpecAny == Init /\ [][NextAny]_vars

\* ------------------------------------------- vocabulary of the properties
Positions == 0..(Len(heap) - 1)

Live == { r \in Positions : ~At(heap, r).deleted }

Elems(s) == { s[n] : n \in 1..Len(s) }

NoDuplicates(s) == \A m, n \in 1..Len(s) : m # n => s[m] # s[n]

StartsWith(s, p) ==
    /\ Len(p) <= Len(s)
    /\ \A n \in 1..Len(p) : s[n] = p[n]

\* the <<key, value>> pairs of a tree, in order
RECURSIVE Entries(_)
Entries(t) ==
    IF t = <<>> THEN <<>>
    ELSE Entries(t[3]) \o << <<t[1], t[2]>> >> \o Entries(t[4])

\* the keys a search for k from the root is compared with
RECURSIVE SearchPath(_, _)
SearchPath(t, k) ==
    IF t = <<>> THEN <<>>
    ELSE IF k = t[1] THEN <<t[1]>>
    ELSE <<t[1]>> \o SearchPath(IF k < t[1] THEN t[3] ELSE t[4], k)

RangeQueries == { <<lo, hi>> \in Ids \X Ids : lo <= hi }

\* position r is in no result of a query made in the current state
ExcludedFromRanges(r) ==
    \A q \in RangeQueries :
        r \notin Elems(rangeByIdRet(heap, idIndex, q[1], q[2]))

ExcludedFromPrefixes(r) ==
    \A p \in Prefixes : r \notin Elems(prefixByLastRet(heap, lastIndex, p))

\* ---------------------------------------------------------------- C1
\* C1: rangeById(lo, hi) returns exactly the live records whose id lies in
\* [lo, hi], each once, in ascending id order.
C1_RangeCorrect ==
    op = "rangeById" =>
        /\ Elems(ret) = { r \in Live : /\ arg[1] <= At(heap, r).id
                                        /\ At(heap, r).id <= arg[2] }
        /\ NoDuplicates(ret)
        /\ \A m, n \in 1..Len(ret) :
               m < n => At(heap, ret[m]).id < At(heap, ret[n]).id

\* a range query, made after a delete, that returns at least two records
\* whose heap positions are not in ascending order
C1_Witness ==
    /\ op = "rangeById"
    /\ \E r \in Positions : At(heap, r).deleted
    /\ \E m, n \in 1..Len(ret) : m < n /\ ret[m] > ret[n]

\* ---------------------------------------------------------------- C2
\* C2: prefixByLast(p) returns exactly the live records whose lowercased
\* last name starts with lowercased p, each once, whatever the letter case
\* of p and of the stored names (all names here are ASCII letters).
C2_PrefixCorrect ==
    op = "prefixByLast" =>
        /\ Elems(ret) = { r \in Live :
                            StartsWith(toLower(At(heap, r).last), toLower(arg)) }
        /\ NoDuplicates(ret)

\* ---------------------------------------------------------------- C3
\* C3: right after insertRecord(r), whether r.id was absent, live or
\* deleted before, findById(r.id) returns a non-deleted record equal to r.
C3_InsertThenFind ==
    op = "insertRecord" =>
        LET found == findByIdRet(heap, idIndex, arg.id)
        IN  /\ found # <<>>
            /\ found[1] \in Positions
            /\ At(heap, found[1]) = arg
            /\ ~At(heap, found[1]).deleted

\* an insert of an id that an earlier record with another last name held
C3_Witness ==
    /\ op = "insertRecord"
    /\ \E r \in Positions :
           /\ r < Len(heap) - 1
           /\ At(heap, r).id = arg.id
           /\ At(heap, r).last # arg.last
    /\ findByIdRet(heap, idIndex, arg.id) = <<Len(heap) - 1>>

\* ---------------------------------------------------------------- C4
\* C4: after an insert that replaces a live record of the same id,
\* findById(id) returns the new record's content, and every earlier heap
\* position of that id is, from then on, in no rangeById and no
\* prefixByLast result (the prior record's last name is among the prefixes).
C4_UpdateOverwrite ==
    /\ (op = "insertRecord" /\ path = "update") =>
           LET found == findByIdRet(heap, idIndex, arg.id)
           IN  /\ found # <<>>
               /\ At(heap, found[1]) = arg
    /\ \A r, n \in Positions :
           (r < n /\ At(heap, r).id = At(heap, n).id) =>
               /\ ExcludedFromRanges(r)
               /\ ExcludedFromPrefixes(r)

\* an update that changes the last name: the old name's bucket is visited by
\* a prefix query on the old name
C4_Witness ==
    /\ op = "insertRecord"
    /\ path = "update"
    /\ Len(heap) >= 2
    /\ At(heap, Len(heap) - 2).id = arg.id
    /\ At(heap, Len(heap) - 2).last # arg.last
    /\ toLower(At(heap, Len(heap) - 2).last) \in
           { e[1] : e \in Elems(Entries(lastIndex)) }

\* ---------------------------------------------------------------- C5
\* C5: after deleteById(id) returned true, rangeById(id, id) is empty,
\* findById(id) is not-found, prefixByLast(the deleted record's last name)
\* does not contain the deleted record, and deleteById(id) again returns
\* false.
C5_DeleteRemoves ==
    (op = "deleteById" /\ ret = TRUE) =>
        /\ rangeByIdRet(heap, idIndex, arg, arg) = <<>>
        /\ findByIdRet(heap, idIndex, arg) = <<>>
        /\ \A r \in Positions :
               At(heap, r).id = arg =>
                   r \notin Elems(prefixByLastRet(heap, lastIndex,
                                                  At(heap, r).last))
        /\ deleteByIdRet(find("int", idIndex, arg)) = FALSE

\* a successful delete while another record with the same last name is live
C5_Witness ==
    /\ op = "deleteById"
    /\ ret = TRUE
    /\ \E r \in Positions, n \in Live :
           /\ At(heap, r).id = arg
           /\ At(heap, r).deleted
           /\ toLower(At(heap, n).last) = toLower(At(heap, r).last)
           /\ prefixByLastRet(heap, lastIndex, At(heap, r).last) # <<>>

\* ---------------------------------------------------------------- C6
\* C6: deleteById(id) on an id no live record holds returns false and
\* leaves the heap, the primary index and the secondary index unchanged;
\* on an id a live record holds it returns true.
C6_DeleteAbsent ==
    [][ op' = "deleteById" =>
            IF \E r \in Positions :
                   At(heap, r).id = arg' /\ ~At(heap, r).deleted
            THEN ret' = TRUE
            ELSE /\ ret' = FALSE
                 /\ heap' = heap
                 /\ idIndex' = idIndex
                 /\ lastIndex' = lastIndex ]_vars

\* a failed delete of an id whose record was deleted before, with live
\* records of other ids in the store
C6_Witness ==
    /\ op = "deleteById"
    /\ ret = FALSE
    /\ \E r \in Positions : At(heap, r).id = arg /\ At(heap, r).deleted
    /\ Live # {}

\* ---------------------------------------------------------------- C7
\* C7: on the new-insert path and on the update path, insertRecord(r)
\* returns the heap position at which r was stored: heap[ret] equals r and
\* the primary index maps r.id to ret.
C7_InsertReturnsPosition ==
    op = "insertRecord" =>
        /\ ret \in Positions
        /\ At(heap, ret) = arg
        /\ find("int", idIndex, arg.id) = <<ret>>

\* an insert on the update path that was not the first or second record
C7_Witness ==
    /\ op = "insertRecord"
    /\ path = "update"
    /\ ret = Len(heap) - 1
    /\ ret >= 2

\* ---------------------------------------------------------------- C8
\* C8: a soft-deleted heap position keeps its deleted flag and is returned
\* by no later findById, rangeById or prefixByLast call, whatever
\* operations follow.
C8_DeletedNeverReturned ==
    [][ \A r \in Positions :
            At(heap, r).deleted =>
                /\ At(heap', r).deleted
                /\ op' = "findById" => ret' # <<r>>
                /\ op' \in {"rangeById", "prefixByLast"} =>
                       r \notin Elems(ret') ]_vars

\* a findById of an id that was deleted and inserted again: it returns the
\* new position while the old one stays deleted
C8_Witness ==
    /\ op = "findById"
    /\ ret # <<>>
    /\ \E r \in Positions :
           /\ At(heap, r).deleted
           /\ At(heap, r).id = arg
           /\ r < ret[1]
    /\ \E r \in Positions : At(heap, r).deleted /\ At(heap, r).id # arg

\* ---------------------------------------------------------------- C9
\* C9: the count findById(id) reports is the number of keys a single search
\* for id from the root of the primary index is compared with; rangeById
\* and prefixByLast report the comparisons of their own traversal only.
\* None of them carries comparisons over from earlier calls.
C9_FreshCount ==
    /\ op = "findById" => cmpOut = Len(SearchPath(idIndex, arg))
    /\ op = "rangeById" =>
           cmpOut = rangeCmp("int", idIndex, arg[1], arg[2])
    /\ op = "prefixByLast" =>
           cmpOut = rangeCmp("string", lastIndex, toLower(arg),
                             toLower(arg) \o <<123>>)

\* a findById two levels deep, so at least two inserts ran their un-reset
\* find calls before it, while lastIndex still carries its own count
C9_Witness ==
    /\ op = "findById"
    /\ cmpOut >= 2
    /\ lastCmp > 0

\* ---------------------------------------------------------------- C10
\* C10: the primary index holds exactly one entry per live record: its keys
\* are the ids of the non-deleted heap records, each key maps to the
\* position of the non-deleted record with that id, and no two non-deleted
\* records share an id.
C10_PrimaryIndexExact ==
    /\ { e[1] : e \in Elems(Entries(idIndex)) } = { At(heap, r).id : r \in Live }
    /\ NoDuplicates(Entries(idIndex))
    /\ \A m, n \in 1..Len(Entries(idIndex)) :
           Entries(idIndex)[m][1] = Entries(idIndex)[n][1] => m = n
    /\ \A e \in Elems(Entries(idIndex)) :
           /\ e[2] \in Live
           /\ At(heap, e[2]).id = e[1]
    /\ \A r, n \in Live : At(heap, r).id = At(heap, n).id => r = n

\* an update followed by a delete of another id, with a live record left
C10_Witness ==
    /\ op = "deleteById"
    /\ ret = TRUE
    /\ Live # {}
    /\ \E r, n \in Positions :
           r < n /\ At(heap, r).id = At(heap, n).id /\ n \in Live

\* ---------------------------------------------------------------- C11
\* how often position r occurs in the bucket list v
Occurrences(v, r) == Cardinality({ n \in 1..Len(v) : v[n] = r })

\* C11: the secondary-index buckets partition the live heap positions by
\* normalized last name: a non-deleted record's position occurs exactly once
\* in the bucket keyed by toLower(its last name) and in no other bucket, and
\* no bucket holds the position of a soft-deleted record.
C11_SecondaryPartition ==
    /\ \A r \in Live :
           \E e \in Elems(Entries(lastIndex)) :
               /\ e[1] = toLower(At(heap, r).last)
               /\ Occurrences(e[2], r) = 1
    /\ \A e \in Elems(Entries(lastIndex)) :
           \A r \in Elems(e[2]) :
               /\ r \in Live
               /\ e[1] = toLower(At(heap, r).last)

\* ---------------------------------------------------------------- C12
\* the bucket keys under which position r is listed in tree t
BucketsOf(t, r) == { e[1] : e \in { x \in Elems(Entries(t)) : r \in Elems(x[2]) } }

\* C12: a successful deleteById(id) changes only the record that held id:
\* every other record keeps its deleted flag, its primary-index entry and
\* its secondary-bucket membership, whatever the shape of the primary index.
C12_DeleteFrame ==
    [][ (op' = "deleteById" /\ ret' = TRUE) =>
            \A r \in Positions :
                At(heap, r).id # arg' =>
                    /\ At(heap', r) = At(heap, r)
                    /\ find("int", idIndex', At(heap, r).id)
                         = find("int", idIndex, At(heap, r).id)
                    /\ BucketsOf(lastIndex', r) = BucketsOf(lastIndex, r) ]_vars

\* ---------------------------------------------------------------- C13
\* C13: the heap is append-only.  An insertRecord step (new or update)
\* grows the heap by one, stores the record at the previous size and returns
\* that position, which is above every position returned before; deleteById
\* and the queries keep the size; no step changes a stored record other than
\* by setting its deleted flag from false to true.
C13_AppendOnly ==
    [][ /\ IF op' = "insertRecord"
           THEN /\ Len(heap') = Len(heap) + 1
                /\ At(heap', Len(heap)) = arg'
                /\ ret' = Len(heap)
           ELSE Len(heap') = Len(heap)
        /\ \A r \in Positions :
               /\ At(heap', r).id = At(heap, r).id
               /\ At(heap', r).last = At(heap, r).last
               /\ At(heap, r).deleted => At(heap', r).deleted ]_vars

\* a heap filled to its bound in which all records but the last are
\* soft-deleted and the last insert took the new path
C13_Witness ==
    /\ op = "insertRecord"
    /\ Len(heap) = MaxHeap
    /\ ret = MaxHeap - 1
    /\ Cardinality(Live) = 1
    /\ path = "new"

\* ---------------------------------------------------------------- C14
\* C14 as stated: on the update path insertRecord returns the position of
\* the old, now soft-deleted record and not the position of the record it
\* appended.
C14_ReturnsOldPosition ==
    [][ (op' = "insertRecord" /\ path' = "update") =>
            /\ ret' # Len(heap') - 1
            /\ \E old \in Live :
                   At(heap, old).id = arg'.id /\ ret' = old ]_vars

\* C14 as the code has it: on the update path insertRecord returns the
\* position of the record it appended (heap.size() read before the append),
\* which is not the position of the old, now soft-deleted record.
C14_ReturnsNewPosition ==
    [][ (op' = "insertRecord" /\ path' = "update") =>
            /\ ret' = Len(heap') - 1
            /\ At(heap', ret') = arg'
            /\ \A old \in Live :
                   At(heap, old).id = arg'.id =>
                       /\ ret' # old
                       /\ At(heap', old).deleted ]_vars

\* an update of the record at position 0 that returns position 1
C14_Witness ==
    /\ op = "insertRecord"
    /\ path = "update"
    /\ ret = 1
    /\ At(heap, 0).id = arg.id
    /\ At(heap, 0).deleted

\* ---------------------------------------------------------------- C15
\* C15: the sentinel '{' sorts after every character of a stored lowercased
\* last name, whatever characters it is made of, so a live record whose
\* lowercased last name starts with the lowercased prefix has its key inside
\* the traversed range [toLower(p), toLower(p) + "{"] and is returned by
\* prefixByLast(p).
C15_SentinelCovers ==
    op = "prefixByLast" =>
        \A r \in Live :
            LET key == toLower(At(heap, r).last)
            IN  StartsWith(key, toLower(arg)) =>
                    /\ \A n \in 1..Len(key) : key[n] < 123
                    /\ ~StrLess(key, lowerBound(arg))
                    /\ ~StrLess(higherBound(arg), key)
                    /\ r \in Elems(ret)

\* ---------------------------------------------------------------- C16
\* C16: the result of prefixByLast is ordered bucket by bucket: ascending
\* normalized last name, and ascending heap position among the records of
\* one normalized last name; it is not in general sorted by id.
C16_BucketOrder ==
    op = "prefixByLast" =>
        \A m, n \in 1..Len(ret) :
            m < n =>
                LET km == toLower(At(heap, ret[m]).last)
                    kn == toLower(At(heap, ret[n]).last)
                IN  \/ StrLess(km, kn)
                    \/ km = kn /\ ret[m] < ret[n]

\* a result, with a soft-deleted record in the heap, that holds two records
\* of one bucket in insertion order while their ids are descending
C16_Witness ==
    /\ op = "prefixByLast"
    /\ Len(ret) = 2
    /\ \E r \in Positions : At(heap, r).deleted
    /\ toLower(At(heap, ret[1]).last) = toLower(At(heap, ret[2]).last)
    /\ ret[1] < ret[2]
    /\ At(heap, ret[1]).id > At(heap, ret[2]).id

\* ---------------------------------------------------------------- C17
\* C17: findById, rangeById and prefixByLast are read-only on the stored
\* data: the heap (deleted flags included) and both trees are unchanged, and
\* only the counter of the index they query may change; the same query
\* repeated with no mutation in between returns the same result and count.
C17_QueriesReadOnly ==
    [][ /\ op' \in {"findById", "rangeById", "prefixByLast"} =>
               /\ heap' = heap
               /\ idIndex' = idIndex
               /\ lastIndex' = lastIndex
        /\ op' \in {"findById", "rangeById"} => lastCmp' = lastCmp
        /\ op' = "prefixByLast" => idCmp' = idCmp
        /\ (/\ op \in {"findById", "rangeById", "prefixByLast"}
            /\ op' = op
            /\ arg' = arg) =>
               /\ ret' = ret
               /\ cmpOut' = cmpOut ]_vars

\* a prefix query that visited both buckets while the primary index still
\* carries the count of an earlier range query
C17_Witness ==
    /\ op = "prefixByLast"
    /\ cmpOut = 4
    /\ idCmp >= 4
    /\ \E r \in Positions : At(heap, r).deleted
    /\ ret # <<>>

====
